---------------------------- MODULE Spec2Model ----------------------------
(***************************************************************************)
(* Model of the MeowTalk sample tools:                                     *)
(*   src/cmd/process_samples/process_audio.py  (AudioFeatureExtractor,     *)
(*       extract_emotion_from_filename, process_audio_files)               *)
(*   src/src/sdk/rosa.py                       (module-level file loop)    *)
(*                                                                         *)
(* Floating-point frequencies are modelled as whole Hz, energies as whole  *)
(* units and spectral magnitudes as hundredths; every value is finite      *)
(* except where NaN is named explicitly.  File names are sequences of      *)
(* one-character strings so that split, replace, lower and endswith are    *)
(* computed and not assumed.                                               *)
(***************************************************************************)
EXTENDS Integers, Sequences, FiniteSets, TLC

VARIABLES
    pc,             \* position of the running script
    features,       \* the dict handed to _validate_features
    result,         \* what _validate_features / extract_features returned
    analysis,       \* what the librosa/numpy calls of extract_features gave
    D,              \* STFT magnitude matrix, D[bin][frame], in hundredths
    sr,             \* sample rate handed to _calculate_peak_frequency
    peak,           \* value returned by _calculate_peak_frequency
    directory,      \* the files of the input directory, in listing order
    caseFold,       \* TRUE when the platform matches file names caselessly
    audio_files,    \* process_audio_files: list(Path(AUDIO_DIR).glob("*.mp3"))
    idx,            \* number of files the running loop has handled
    library,        \* process_audio_files: the library dict
    outcome,        \* history: per handled file, "ok" or "failed" extraction
    audio_to_emotion, \* rosa.py: the table parse_emotions_ts returned
    features_list   \* rosa.py: features_list

vars == <<pc, features, result, analysis, D, sr, peak, directory, caseFold,
          audio_files, idx, library, outcome, audio_to_emotion, features_list>>

None == "None"
NaN == <<>>          \* a float is <<v>> where NaN can occur, and NaN is <<>>

-----------------------------------------------------------------------------
(* Bounds of the model *)

Delta == 1          \* frequencies are drawn within Delta Hz of each threshold
EMax == 1           \* Energy and RootMeanSquare are drawn from -EMax..EMax
MaxBins == 4        \* the magnitude matrix has 2..MaxBins frequency bins
MaxFrames == 2      \* and 1..MaxFrames time frames
MaxFiles == 3       \* a directory holds at most MaxFiles files

-----------------------------------------------------------------------------
(* AudioFeatureExtractor.__init__ and the literals of _validate_features *)

min_freq == 70
max_freq == 2000
PitchMax == 1500
MaxDiff == 1

Abs(x) == IF x < 0 THEN -x ELSE x

FreqVals ==
    UNION { (c - Delta)..(c + Delta) : c \in {0, min_freq, PitchMax, max_freq} }

EnergyVals == (0 - EMax)..EMax

FeatureRecords ==
    [ Duration : {1}, Energy : EnergyVals, RootMeanSquare : EnergyVals,
      ZeroCrossRate : {1}, PeakFreq : FreqVals, FundamentalFreq : FreqVals,
      Pitch : FreqVals, SpectralCentroid : {1}, SpectralRolloff : {1} ]

(* _validate_features, statement by statement *)
CheckEnergy_Unclamped(f) == f

CheckEnergy(f) ==
    IF f.Energy < 0 THEN [f EXCEPT !.Energy = 0] ELSE f

CheckRms(f) ==
    IF f.RootMeanSquare < 0 THEN [f EXCEPT !.RootMeanSquare = 0] ELSE f

CheckPitch(f) ==
    IF f.Pitch < min_freq \/ f.Pitch > PitchMax
    THEN [f EXCEPT !.Pitch = 0] ELSE f

CheckPeakFreq(f) ==
    IF f.PeakFreq < min_freq \/ f.PeakFreq > max_freq
    THEN [f EXCEPT !.PeakFreq = 0] ELSE f

Reconcile_Skipped(f) == f

Reconcile(f) ==
    IF f.FundamentalFreq > 0 /\ f.Pitch > 0
    THEN IF Abs(f.FundamentalFreq - f.Pitch) > MaxDiff
         THEN [f EXCEPT !.Pitch = f.FundamentalFreq]
         ELSE f
    ELSE f

ValidateFeatures(f) ==
    Reconcile(CheckPeakFreq(CheckPitch(CheckRms(CheckEnergy(f)))))

-----------------------------------------------------------------------------
(* Values of the variables a specification does not use *)

IdleValidate ==
    /\ features = None /\ result = None
IdleAnalysis == analysis = None
IdlePeak ==
    /\ D = <<>> /\ sr = 0 /\ peak = None
IdleFiles ==
    /\ directory = <<>> /\ caseFold = FALSE /\ audio_files = <<>>
    /\ idx = 0 /\ library = <<>> /\ outcome = <<>>
IdleRosa ==
    /\ audio_to_emotion = <<>> /\ features_list = <<>>

-----------------------------------------------------------------------------
(* _validate_features called on an arbitrary record *)

InitValidate ==
    /\ pc = "validate"
    /\ features \in FeatureRecords
    /\ result = None
    /\ IdleAnalysis /\ IdlePeak /\ IdleFiles /\ IdleRosa

CallValidate ==
    /\ pc = "validate"
    /\ result' = ValidateFeatures(features)
    /\ pc' = "validated"
    /\ UNCHANGED <<features, analysis, D, sr, peak, directory, caseFold,
                   audio_files, idx, library, outcome, audio_to_emotion,
                   features_list>>

NextValidate == CallValidate

SpecValidate == InitValidate /\ [][NextValidate]_vars


-----------------------------------------------------------------------------
(* extract_features: the values the librosa/numpy calls hand back are the  *)
(* inputs; the function builds the dict and validates it, or an exception  *)
(* raised anywhere in the try block makes it return None.                  *)

AnalysisResults ==
    [ voiced_any : BOOLEAN, nanmean : {<<v>> : v \in FreqVals} \cup {NaN},
      energy : EnergyVals, rms : EnergyVals, peak_freq : FreqVals ]

(* lines 61-63: a NaN mean compares False with 0 *)
FundamentalFreqOf(a) ==
    IF a.voiced_any /\ a.nanmean # NaN /\ a.nanmean[1] > 0
    THEN a.nanmean[1] ELSE 0

BuildFeatures_PitchFromPeak(a) ==
    [ Duration |-> 1, Energy |-> a.energy, RootMeanSquare |-> a.rms,
      ZeroCrossRate |-> 1, PeakFreq |-> a.peak_freq,
      FundamentalFreq |-> FundamentalFreqOf(a),
      Pitch |-> a.peak_freq,
      SpectralCentroid |-> 1, SpectralRolloff |-> 1 ]

(* lines 75-88: pitch = fundamental_freq, then the dict *)
BuildFeatures(a) ==
    [ Duration |-> 1, Energy |-> a.energy, RootMeanSquare |-> a.rms,
      ZeroCrossRate |-> 1, PeakFreq |-> a.peak_freq,
      FundamentalFreq |-> FundamentalFreqOf(a),
      Pitch |-> FundamentalFreqOf(a),
      SpectralCentroid |-> 1, SpectralRolloff |-> 1 ]

InitExtract ==
    /\ pc = "extract"
    /\ analysis \in AnalysisResults
    /\ IdleValidate /\ IdlePeak /\ IdleFiles /\ IdleRosa

ExtractReturns ==
    /\ pc = "extract"
    /\ features' = BuildFeatures(analysis)
    /\ result' = ValidateFeatures(BuildFeatures(analysis))
    /\ pc' = "extracted"
    /\ UNCHANGED <<analysis, D, sr, peak, directory, caseFold, audio_files,
                   idx, library, outcome, audio_to_emotion, features_list>>

ExtractRaises ==
    /\ pc = "extract"
    /\ result' = None
    /\ pc' = "extract_failed"
    /\ UNCHANGED <<features, analysis, D, sr, peak, directory, caseFold,
                   audio_files, idx, library, outcome, audio_to_emotion,
                   features_list>>

NextExtract == ExtractReturns \/ ExtractRaises

SpecExtract == InitExtract /\ [][NextExtract]_vars

-----------------------------------------------------------------------------
(* _calculate_peak_frequency.  D is np.abs(librosa.stft(y)): D[b][t] is    *)
(* the magnitude of bin b in frame t, in hundredths.  The function is      *)
(* modelled from the matrix on: the transform itself is librosa's.         *)

EFFECTIVE_SAMPLE_RATE == 4410
PeakThreshold == 5      \* 0.05, in hundredths

RECURSIVE SumSeq(_)
SumSeq(s) == IF s = <<>> THEN 0 ELSE Head(s) + SumSeq(Tail(s))

(* librosa.fft_frequencies(sr, n_fft): bin k lies at k * sr / n_fft, here *)
(* rounded down to whole Hz                                               *)
FftFrequencies(rate, n_fft) ==
    [k \in 1..((n_fft \div 2) + 1) |-> ((k - 1) * rate) \div n_fft]

(* np.where(...)[0]: the indices that satisfy the test, ascending *)
RECURSIVE WhereInBand(_, _)
WhereInBand(freqs, k) ==
    IF k > Len(freqs) THEN <<>>
    ELSE IF freqs[k] >= min_freq /\ freqs[k] <= max_freq
         THEN <<k>> \o WhereInBand(freqs, k + 1)
         ELSE WhereInBand(freqs, k + 1)

(* np.mean(D[idx], axis=1), times the number of frames: every row has the *)
(* same length, so rows compare as their means do                          *)
MeanMagnitudes(M, ix) == [i \in 1..Len(ix) |-> SumSeq(M[ix[i]])]

(* np.argmax: the first position that holds the maximum *)
RECURSIVE ArgMaxFrom(_, _, _)
ArgMaxFrom(m, i, best) ==
    IF i > Len(m) THEN best
    ELSE ArgMaxFrom(m, i + 1, IF m[i] > m[best] THEN i ELSE best)

ArgMax_Last(m) ==
    CHOOSE i \in 1..Len(m) :
        /\ \A j \in 1..Len(m) : m[j] <= m[i]
        /\ \A j \in (i + 1)..Len(m) : m[j] < m[i]

ArgMax(m) == ArgMaxFrom(m, 2, 1)

CalculatePeakFrequency(M, rate) ==
    LET freqs == FftFrequencies(rate, 2 * (Len(M) - 1))
        ix == WhereInBand(freqs, 1)
    IN  IF Len(ix) = 0 THEN 0
        ELSE LET mean_magnitudes == MeanMagnitudes(M, ix)
                 frames == Len(M[1])
             IN  IF mean_magnitudes[ArgMax(mean_magnitudes)]
                        > PeakThreshold * frames
                 THEN freqs[ix[ArgMax(mean_magnitudes)]]
                 ELSE 0

(* two frames of 0 and 2 * PeakThreshold average to exactly PeakThreshold *)
MagVals == {0, 2 * PeakThreshold}

SampleRates ==
    {EFFECTIVE_SAMPLE_RATE, 2 * min_freq, 2 * min_freq - 2, 2 * max_freq,
     2 * max_freq + 4}

Matrices ==
    UNION { [1..b -> [1..t -> MagVals]] : b \in 2..MaxBins, t \in 1..MaxFrames }

InitPeak ==
    /\ pc = "peak"
    /\ D \in Matrices
    /\ sr \in SampleRates
    /\ peak = None
    /\ IdleValidate /\ IdleAnalysis /\ IdleFiles /\ IdleRosa

CallCalculatePeakFrequency ==
    /\ pc = "peak"
    /\ peak' = CalculatePeakFrequency(D, sr)
    /\ pc' = "peak_done"
    /\ UNCHANGED <<features, result, analysis, D, sr, directory, caseFold,
                   audio_files, idx, library, outcome, audio_to_emotion,
                   features_list>>

NextPeak == CallCalculatePeakFrequency

SpecPeak == InitPeak /\ [][NextPeak]_vars

-----------------------------------------------------------------------------
(* File names, as sequences of characters, and the string methods used on  *)
(* them                                                                    *)

LowerChar(c) ==
    CASE c = "M" -> "m" [] c = "P" -> "p" [] c = "W" -> "w"
      [] c = "A" -> "a" [] c = "V" -> "v" [] OTHER -> c

Lower(s) == [i \in 1..Len(s) |-> LowerChar(s[i])]

EndsWith(s, suffix) ==
    /\ Len(s) >= Len(suffix)
    /\ SubSeq(s, Len(s) - Len(suffix) + 1, Len(s)) = suffix

Contains(s, c) == \E i \in 1..Len(s) : s[i] = c

(* s.split(c)[0] *)
RECURSIVE SplitFirst(_, _)
SplitFirst(s, c) ==
    IF s = <<>> \/ Head(s) = c THEN <<>>
    ELSE <<Head(s)>> \o SplitFirst(Tail(s), c)

(* s.replace(old, new) for one-character old and new *)
RECURSIVE Replace(_, _, _)
Replace(s, old, new) ==
    IF s = <<>> THEN <<>>
    ELSE <<IF Head(s) = old THEN new ELSE Head(s)>>
             \o Replace(Tail(s), old, new)

(* os.path.splitext(s)[0]: cut at the last dot, unless only dots precede it *)
RECURSIVE LastDot(_, _)
LastDot(s, i) ==
    IF i = 0 THEN 0 ELSE IF s[i] = "." THEN i ELSE LastDot(s, i - 1)

SplitextRoot(s) ==
    LET d == LastDot(s, Len(s))
    IN  IF d > 0 /\ \E i \in 1..(d - 1) : s[i] # "."
        THEN SubSeq(s, 1, d - 1) ELSE s

DotMp3 == <<".", "m", "p", "3">>
DotWav == <<".", "w", "a", "v">>

happy_1_wav == <<"h", "a", "p", "p", "y", "_", "1">> \o DotWav
happy_2_wav == <<"h", "a", "p", "p", "y", "_", "2">> \o DotWav
happy_1_mp3 == <<"h", "a", "p", "p", "y", "_", "1">> \o DotMp3
happy_2_mp3 == <<"h", "a", "p", "p", "y", "_", "2">> \o DotMp3
sad_mp3 == <<"s", "a", "d">> \o DotMp3
so_so_1_mp3 == <<"s", "o", "-", "s", "o", "_", "1">> \o DotMp3
mad_1_MP3 == <<"m", "a", "d", "_", "1", ".", "M", "P", "3">>
scared_meow_MP3 ==
    <<"s", "c", "a", "r", "e", "d", "_", "m", "e", "o", "w", ".", "M", "P", "3">>
purr_WAV == <<"p", "u", "r", "r", ".", "W", "A", "V">>
hiss_wav == <<"h", "i", "s", "s">> \o DotWav
notes_txt == <<"n", "o", "t", "e", "s", ".", "t", "x", "t">>

(* os.listdir / glob: the names of a directory are distinct, in any order *)
Listings(names) ==
    { l \in UNION { [1..n -> names] : n \in 0..MaxFiles } :
        \A i, j \in 1..Len(l) : i # j => l[i] # l[j] }

-----------------------------------------------------------------------------
(* process_audio.py: extract_emotion_from_filename and process_audio_files *)

ExtractEmotion_NoNormalise(filename) ==
    IF Contains(filename, "_") THEN SplitFirst(filename, "_")
    ELSE SplitextRoot(filename)

ExtractEmotionFromFilename(filename) ==
    LET emotion == IF Contains(filename, "_") THEN SplitFirst(filename, "_")
                   ELSE SplitextRoot(filename)
    IN  Replace(emotion, "-", "_")

(* Path(AUDIO_DIR).glob("*.mp3"): caseless where the platform's paths are *)
GlobMp3(listing, fold) ==
    SelectSeq(listing,
              LAMBDA f : EndsWith(IF fold THEN Lower(f) ELSE f, DotMp3))

EmptyLibrary == [totalSamples |-> 0, emotions |-> <<>>, samples |-> <<>>]

RegisterEmotion_Always(lib, emotion) ==
    [lib EXCEPT !.emotions = Append(@, emotion),
                !.samples = (emotion :> <<>>) @@ @]

(* lines 185-187 *)
RegisterEmotion(lib, emotion) ==
    IF \A i \in 1..Len(lib.emotions) : lib.emotions[i] # emotion
    THEN [lib EXCEPT !.emotions = Append(@, emotion),
                     !.samples = (emotion :> <<>>) @@ @]
    ELSE lib

(* lines 193-201 *)
AddSample(lib, path, emotion, feats) ==
    [lib EXCEPT
        !.samples[emotion] =
            Append(@, [FilePath |-> path, Emotion |-> emotion,
                       Features |-> feats]),
        !.totalSamples = @ + 1]

LibraryFiles ==
    {happy_1_wav, happy_2_wav, happy_1_mp3, happy_2_mp3, sad_mp3,
     so_so_1_mp3, mad_1_MP3}

(* what the analysis of a readable file may give, two cases being enough   *)
(* to tell Samples apart                                                   *)
LibraryAnalyses ==
    [ voiced_any : {TRUE}, nanmean : {<<min_freq>>, <<max_freq>>},
      energy : {EMax}, rms : {EMax}, peak_freq : {min_freq} ]

InitLibrary ==
    /\ pc = "glob"
    /\ directory \in Listings(LibraryFiles)
    /\ caseFold \in BOOLEAN
    /\ audio_files = <<>>
    /\ idx = 0
    /\ library = EmptyLibrary
    /\ outcome = <<>>
    /\ IdleValidate /\ IdleAnalysis /\ IdlePeak /\ IdleRosa

(* lines 166-177 *)
StartProcessAudioFiles ==
    /\ pc = "glob"
    /\ library' = EmptyLibrary
    /\ audio_files' = GlobMp3(directory, caseFold)
    /\ pc' = "loop"
    /\ UNCHANGED <<features, result, analysis, D, sr, peak, directory,
                   caseFold, idx, outcome, audio_to_emotion, features_list>>

(* one pass of the loop in which extract_features returns a record *)
HandleFileExtracted ==
    /\ pc = "loop"
    /\ idx < Len(audio_files)
    /\ \E a \in LibraryAnalyses :
          LET audio_path == audio_files[idx + 1]
              emotion == ExtractEmotionFromFilename(audio_path)
              feats == ValidateFeatures(BuildFeatures(a))
          IN  library' = AddSample(RegisterEmotion(library, emotion),
                                   audio_path, emotion, feats)
    /\ idx' = idx + 1
    /\ outcome' = Append(outcome, "ok")
    /\ UNCHANGED <<pc, features, result, analysis, D, sr, peak, directory,
                   caseFold, audio_files, audio_to_emotion, features_list>>

(* one pass of the loop in which extract_features returns None *)
HandleFileFailed ==
    /\ pc = "loop"
    /\ idx < Len(audio_files)
    /\ LET audio_path == audio_files[idx + 1]
           emotion == ExtractEmotionFromFilename(audio_path)
       IN  library' = RegisterEmotion(library, emotion)
    /\ idx' = idx + 1
    /\ outcome' = Append(outcome, "failed")
    /\ UNCHANGED <<pc, features, result, analysis, D, sr, peak, directory,
                   caseFold, audio_files, audio_to_emotion, features_list>>

(* lines 203-208: json.dump of the library *)
SaveLibrary ==
    /\ pc = "loop"
    /\ idx = Len(audio_files)
    /\ pc' = "saved"
    /\ UNCHANGED <<features, result, analysis, D, sr, peak, directory,
                   caseFold, audio_files, idx, library, outcome,
                   audio_to_emotion, features_list>>

(* open() or json.dump raises: nothing catches it *)
SaveLibraryRaises ==
    /\ pc = "loop"
    /\ idx = Len(audio_files)
    /\ pc' = "save_failed"
    /\ UNCHANGED <<features, result, analysis, D, sr, peak, directory,
                   caseFold, audio_files, idx, library, outcome,
                   audio_to_emotion, features_list>>

NextLibrary ==
    \/ StartProcessAudioFiles
    \/ HandleFileExtracted
    \/ HandleFileFailed
    \/ SaveLibrary
    \/ SaveLibraryRaises

SpecLibrary == InitLibrary /\ [][NextLibrary]_vars

-----------------------------------------------------------------------------
(* rosa.py: the module-level loop over os.listdir(audio_directory)         *)

RosaFiles == {scared_meow_MP3, sad_mp3, purr_WAV, hiss_wav, notes_txt}

(* parse_emotions_ts: a dict from file names to non-empty emotion ids      *)
EmotionIds == {"happy", "angry"}
EmotionTables ==
    UNION { [keys -> EmotionIds] : keys \in SUBSET {sad_mp3, purr_WAV, notes_txt} }

(* line 32: filename.lower().endswith(('.mp3', '.wav')) *)
IsAudio(filename) ==
    EndsWith(Lower(filename), DotMp3) \/ EndsWith(Lower(filename), DotWav)

EmotionLabel_NoSpecialCase(filename, table) ==
    IF filename \in DOMAIN table THEN table[filename] ELSE None

(* lines 34-39: the special case, else audio_to_emotion.get(filename) *)
EmotionLabel(filename, table) ==
    IF filename = scared_meow_MP3 THEN "scared"
    ELSE IF filename \in DOMAIN table THEN table[filename] ELSE None

(* lines 46-57: the feature vector of a file, which the model keeps opaque *)
FeatureVector(filename) == <<"mfcc", "zcr", "centroid">>

InitRosa ==
    /\ pc = "rosa_loop"
    /\ directory \in Listings(RosaFiles)
    /\ audio_to_emotion \in EmotionTables
    /\ features_list = <<>>
    /\ idx = 0
    /\ caseFold = FALSE /\ audio_files = <<>> /\ library = <<>>
    /\ outcome = <<>>
    /\ IdleValidate /\ IdleAnalysis /\ IdlePeak

(* line 32 false: the file is passed over without a word *)
RosaSkipNotAudio ==
    /\ pc = "rosa_loop"
    /\ idx < Len(directory)
    /\ ~IsAudio(directory[idx + 1])
    /\ idx' = idx + 1
    /\ UNCHANGED <<pc, features, result, analysis, D, sr, peak, directory,
                   caseFold, audio_files, library, outcome, audio_to_emotion,
                   features_list>>

(* line 41 false: the warning of line 65 *)
RosaSkipUnmapped ==
    /\ pc = "rosa_loop"
    /\ idx < Len(directory)
    /\ IsAudio(directory[idx + 1])
    /\ EmotionLabel(directory[idx + 1], audio_to_emotion) = None
    /\ idx' = idx + 1
    /\ UNCHANGED <<pc, features, result, analysis, D, sr, peak, directory,
                   caseFold, audio_files, library, outcome, audio_to_emotion,
                   features_list>>

(* lines 42-63 run to the end *)
RosaProcessFile ==
    /\ pc = "rosa_loop"
    /\ idx < Len(directory)
    /\ IsAudio(directory[idx + 1])
    /\ EmotionLabel(directory[idx + 1], audio_to_emotion) # None
    /\ features_list' =
          Append(features_list,
                 [emotion |-> EmotionLabel(directory[idx + 1], audio_to_emotion),
                  features |-> FeatureVector(directory[idx + 1])])
    /\ idx' = idx + 1
    /\ UNCHANGED <<pc, features, result, analysis, D, sr, peak, directory,
                   caseFold, audio_files, library, outcome, audio_to_emotion>>

(* librosa.load or an analysis call of lines 46-54 raises; the loop has no *)
(* try, so the exception ends the script before line 68                    *)
RosaFileRaises ==
    /\ pc = "rosa_loop"
    /\ idx < Len(directory)
    /\ IsAudio(directory[idx + 1])
    /\ EmotionLabel(directory[idx + 1], audio_to_emotion) # None
    /\ pc' = "rosa_aborted"
    /\ UNCHANGED <<features, result, analysis, D, sr, peak, directory,
                   caseFold, audio_files, idx, library, outcome,
                   audio_to_emotion, features_list>>

(* lines 67-71 *)
RosaSave ==
    /\ pc = "rosa_loop"
    /\ idx = Len(directory)
    /\ pc' = "rosa_done"
    /\ UNCHANGED <<features, result, analysis, D, sr, peak, directory,
                   caseFold, audio_files, idx, library, outcome,
                   audio_to_emotion, features_list>>

NextRosa ==
    \/ RosaSkipNotAudio
    \/ RosaSkipUnmapped
    \/ RosaProcessFile
    \/ RosaFileRaises
    \/ RosaSave

SpecRosa == InitRosa /\ [][NextRosa]_vars

-----------------------------------------------------------------------------
(* Claims about _validate_features (SpecValidate) *)

InBand(x, lo, hi) == lo <= x /\ x <= hi

\* C1: every record returned by _validate_features has PeakFreq equal to 0
\* or within [70, 2000] and Pitch equal to 0 or within [70, 1500].
C1_BandInvariant ==
    pc = "validated" =>
        /\ result.PeakFreq = 0 \/ InBand(result.PeakFreq, 70, 2000)
        /\ result.Pitch = 0 \/ InBand(result.Pitch, 70, 1500)

\* C2 as stated: whenever FundamentalFreq > 0, the Pitch before validation
\* is > 0 and the two differ by more than 1.0, the returned Pitch equals
\* FundamentalFreq.
C2_ReconciliationAsStated ==
    (pc = "validated" /\ features.FundamentalFreq > 0 /\ features.Pitch > 0
        /\ Abs(features.FundamentalFreq - features.Pitch) > 1)
    => result.Pitch = result.FundamentalFreq

\* C2 amended: whenever FundamentalFreq > 0, the Pitch before validation
\* lies within [70, 1500] (so the range check does not zero it) and the two
\* differ by more than 1.0, the returned Pitch equals FundamentalFreq, which
\* is itself returned unchanged.
C2_Reconciliation ==
    (pc = "validated" /\ features.FundamentalFreq > 0
        /\ InBand(features.Pitch, 70, 1500)
        /\ Abs(features.FundamentalFreq - features.Pitch) > 1)
    => /\ result.Pitch = features.FundamentalFreq
       /\ result.FundamentalFreq = features.FundamentalFreq

C2_Witness ==
    /\ pc = "validated"
    /\ features.FundamentalFreq > 0
    /\ InBand(features.Pitch, 70, 1500)
    /\ Abs(features.FundamentalFreq - features.Pitch) > 1
    /\ result.Pitch # features.Pitch
    /\ result.Pitch = features.FundamentalFreq

\* C8: the returned record has Energy >= 0 and RootMeanSquare >= 0; a
\* negative input value is replaced by exactly 0 and a non-negative one is
\* returned as it was.
C8_NonNegativity ==
    pc = "validated" =>
        /\ result.Energy >= 0
        /\ result.RootMeanSquare >= 0
        /\ result.Energy = (IF features.Energy < 0 THEN 0 ELSE features.Energy)
        /\ result.RootMeanSquare =
              (IF features.RootMeanSquare < 0 THEN 0
               ELSE features.RootMeanSquare)

C8_Witness ==
    /\ pc = "validated"
    /\ features.Energy < 0 /\ features.RootMeanSquare < 0
    /\ result.Energy = 0 /\ result.RootMeanSquare = 0

-----------------------------------------------------------------------------
(* Claims about extract_features (SpecExtract) *)

\* C10: a record returned by extract_features has FundamentalFreq equal to
\* the aggregate fundamental frequency and Pitch equal to it when it lies in
\* [70, 1500] and to 0 otherwise; the reconciliation step leaves the Pitch
\* it receives untouched.
C10_PipelinePitch ==
    pc = "extracted" =>
        LET F == FundamentalFreqOf(analysis)
            beforeStep4 == CheckPeakFreq(CheckPitch(CheckRms(CheckEnergy(features))))
        IN  /\ result.FundamentalFreq = F
            /\ result.Pitch = (IF InBand(F, 70, 1500) THEN F ELSE 0)
            /\ result.Pitch = beforeStep4.Pitch

C10_Witness ==
    /\ pc = "extracted"
    /\ FundamentalFreqOf(analysis) > 1500
    /\ result.FundamentalFreq > 1500
    /\ result.Pitch = 0

-----------------------------------------------------------------------------
(* Claims about _calculate_peak_frequency (SpecPeak) *)

BinFreq(b) == ((b - 1) * sr) \div (2 * (Len(D) - 1))
InBandBins == {b \in 1..Len(D) : InBand(BinFreq(b), 70, 2000)}
AvgTimesFrames(b) == SumSeq(D[b])
Loudest(b) == \A c \in InBandBins : AvgTimesFrames(c) <= AvgTimesFrames(b)

\* C9: _calculate_peak_frequency returns 0 when no bin lies in [70, 2000];
\* otherwise, with m(b) the magnitude of in-band bin b averaged over the
\* frames, it returns the frequency of the first in-band bin that maximises
\* m when max m > 0.05 and 0 when max m <= 0.05; its result is always 0 or a
\* frequency within [70, 2000].
C9_PeakPolicy ==
    pc = "peak_done" =>
        /\ InBandBins = {} => peak = 0
        /\ \A b \in InBandBins :
              (Loudest(b) /\ \A c \in InBandBins : c < b => ~Loudest(c)) =>
                 peak = (IF AvgTimesFrames(b) > 5 * Len(D[b])
                         THEN BinFreq(b) ELSE 0)
        /\ peak = 0 \/ InBand(peak, 70, 2000)

C9_Witness ==
    /\ pc = "peak_done"
    /\ \E b, c \in InBandBins :
          /\ b < c /\ Loudest(b) /\ Loudest(c)
          /\ AvgTimesFrames(b) > 5 * Len(D[b])
          /\ peak = BinFreq(b)

-----------------------------------------------------------------------------
(* Claims about process_audio_files (SpecLibrary) *)

RECURSIVE SumOfLengths(_, _)
SumOfLengths(f, keys) ==
    IF keys = {} THEN 0
    ELSE LET k == CHOOSE x \in keys : TRUE
         IN  Len(f[k]) + SumOfLengths(f, keys \ {k})

Handled == 1..idx
FailedCount == Cardinality({j \in Handled : outcome[j] = "failed"})
Failed(f) == \E j \in Handled : audio_files[j] = f /\ outcome[j] = "failed"
InDirectory == {directory[i] : i \in 1..Len(directory)}

HasSample(label, f) ==
    /\ label \in DOMAIN library.samples
    /\ \E i \in 1..Len(library.samples[label]) :
          library.samples[label][i].FilePath = f

HasAnySample(f) == \E label \in DOMAIN library.samples : HasSample(label, f)

\* C3: at every point of process_audio_files, totalSamples equals the number
\* of Samples held in all lists of samples, the elements of emotions are
\* exactly the keys of samples, and emotions holds no label twice.
C3_LibraryConsistency ==
    /\ library.totalSamples =
          SumOfLengths(library.samples, DOMAIN library.samples)
    /\ {library.emotions[i] : i \in 1..Len(library.emotions)}
          = DOMAIN library.samples
    /\ \A i, j \in 1..Len(library.emotions) :
          i # j => library.emotions[i] # library.emotions[j]

C3_Witness ==
    /\ pc = "saved"
    /\ library.totalSamples >= 2
    /\ Len(library.emotions) >= 2
    /\ FailedCount >= 1

\* C4: after process_audio_files has run over N files, totalSamples equals
\* N less the number of files whose extraction failed, and every label in
\* emotions has at least one Sample, so that len(emotions) is the number of
\* distinct labels among the files that were not skipped.
C4_AggregatorCounts ==
    pc = "saved" =>
        /\ library.totalSamples = Len(audio_files) - FailedCount
        /\ \A i \in 1..Len(library.emotions) :
              Len(library.samples[library.emotions[i]]) >= 1
        /\ Len(library.emotions) =
              Cardinality({ s.Emotion :
                  s \in UNION { {library.samples[k][i] :
                                    i \in 1..Len(library.samples[k])} :
                                k \in DOMAIN library.samples } })

FirstUnderscore(f) ==
    CHOOSE p \in 1..Len(f) : f[p] = "_" /\ \A q \in 1..(p - 1) : f[q] # "_"

ConventionLabel(f) ==
    LET cut == IF Contains(f, "_") THEN FirstUnderscore(f)
               ELSE CHOOSE p \in 1..Len(f) :
                        f[p] = "." /\ \A q \in (p + 1)..Len(f) : f[q] # "."
    IN  [i \in 1..(cut - 1) |-> IF f[i] = "-" THEN "_" ELSE f[i]]

MatchesMp3(f) ==
    \/ EndsWith(f, DotMp3)
    \/ caseFold /\ EndsWith(f, <<".", "M", "P", "3">>)

-----------------------------------------------------------------------------
(* Claims about the loop of rosa.py (SpecRosa) *)

\* C5: a decode or analysis failure on one file is caught and the loop goes
\* on to the remaining files: no exception of the per-file processing ends
\* the batch.
C5_FailureIsolation == pc \in {"rosa_loop", "rosa_done"}

AudioNames == {scared_meow_MP3, sad_mp3, purr_WAV, hiss_wav}

Resolved(f) ==
    f \in AudioNames /\ (f = scared_meow_MP3 \/ f \in DOMAIN audio_to_emotion)

RECURSIVE ExpectedLabels(_)
ExpectedLabels(n) ==
    IF n = 0 THEN <<>>
    ELSE ExpectedLabels(n - 1) \o
         ( IF ~Resolved(directory[n]) THEN <<>>
           ELSE IF directory[n] = scared_meow_MP3 THEN <<"scared">>
           ELSE <<audio_to_emotion[directory[n]]>> )

\* C7: an audio file with no entry in the label table, other than
\* scared_meow.MP3, adds nothing to features_list and the loop goes on; the
\* list holds one entry per audio file with a resolved label among the
\* files handled so far, each with that file's label, in listing order, and
\* the loop that finishes has handled every file.
C7_UnmappedSkipped ==
    /\ [i \in 1..Len(features_list) |-> features_list[i].emotion]
          = ExpectedLabels(idx)
    /\ pc = "rosa_done" => idx = Len(directory)

C7_Witness ==
    /\ pc = "rosa_done"
    /\ directory = <<scared_meow_MP3, hiss_wav, sad_mp3>>
    /\ sad_mp3 \in DOMAIN audio_to_emotion
    /\ Len(features_list) = 2
    /\ features_list[1].emotion = "scared"

=============================================================================
